---- MODULE Spec2Model ----
(***************************************************************************)
(* Model of mgc/lineparser.py: parse_opcodes and its helpers.              *)
(*                                                                         *)
(* A Python str is a sequence of one-character strings.  An Operation is a *)
(* record [codetype, data]; a Command is [name, args]; a Macro is          *)
(* [name, count].  A coerced command argument carries its Python type:     *)
(* [type |-> "int", val |-> n] or [type |-> "str", val |-> s].             *)
(* A call that ends in an uncaught exception is the outcome                *)
(* [exc |-> "IndexError" | "ValueError", ops |-> <<>>]; a call that        *)
(* returns is [exc |-> "none", ops |-> op_list].                           *)
(*                                                                         *)
(* Second part: mgc/gci_tools/meleegci.py, the packed flag of a            *)
(* melee_gamedata object under pack(), unpack() and recompute_checksums(). *)
(***************************************************************************)
EXTENDS Integers, Sequences, FiniteSets, TLC

(***************************************************************************)
(* Bounds of the checked input space.                                      *)
(***************************************************************************)
\* longest free part of an input line (characters after the chosen prefix)
MaxLen == 2
\* largest number of entries registered in the alias table
MaxAliases == 2
\* largest number of save blocks a GCI file holds
MaxBlocks == 1
\* bytes kept of the data region of a block (0x1ff0 in a file)
DataBytes == 1

(***************************************************************************)
(* Characters.                                                             *)
(***************************************************************************)
Quote == "\""
Hash == "#"
\* the members of string.whitespace (and of \s, str.strip) that inputs use
Whitespace == {" ", "\t", "\n"}
\* string.hexdigits
hexdigits == {"0", "1", "2", "3", "4", "5", "6", "7", "8", "9",
              "a", "b", "c", "d", "e", "f", "A", "B", "C", "D", "E", "F"}
decdigits == {"0", "1", "2", "3", "4", "5", "6", "7", "8", "9"}
bindigits == {"0", "1"}

\* value of one digit character, as int() reads it
DigitVal(c) ==
    CASE c = "0" -> 0 [] c = "1" -> 1 [] c = "2" -> 2 [] c = "3" -> 3
      [] c = "4" -> 4 [] c = "5" -> 5 [] c = "6" -> 6 [] c = "7" -> 7
      [] c = "8" -> 8 [] c = "9" -> 9
      [] c \in {"a", "A"} -> 10 [] c \in {"b", "B"} -> 11
      [] c \in {"c", "C"} -> 12 [] c \in {"d", "D"} -> 13
      [] c \in {"e", "E"} -> 14 [] c \in {"f", "F"} -> 15

\* digit character format(n, 'x') writes for 0 <= d < 16
HexChar(d) ==
    CASE d = 0 -> "0" [] d = 1 -> "1" [] d = 2 -> "2" [] d = 3 -> "3"
      [] d = 4 -> "4" [] d = 5 -> "5" [] d = 6 -> "6" [] d = 7 -> "7"
      [] d = 8 -> "8" [] d = 9 -> "9" [] d = 10 -> "a" [] d = 11 -> "b"
      [] d = 12 -> "c" [] d = 13 -> "d" [] d = 14 -> "e" [] d = 15 -> "f"

DigitsOf(base) ==
    IF base = 16 THEN hexdigits ELSE IF base = 10 THEN decdigits ELSE bindigits

(***************************************************************************)
(* str methods.                                                            *)
(***************************************************************************)
\* s[i:] (1-based i)
Drop(s, i) == SubSeq(s, i, Len(s))

\* str.find(c) for a one-character c: first 1-based index, 0 when absent
FindChar(s, c) ==
    IF \E i \in DOMAIN s : s[i] = c
    THEN CHOOSE i \in DOMAIN s : s[i] = c /\ \A j \in 1..(i - 1) : s[j] # c
    ELSE 0

\* str.count(c)
CountChar(s, c) == Cardinality({i \in DOMAIN s : s[i] = c})

\* str.strip()
strip(s) ==
    LET keep == {i \in DOMAIN s : s[i] \notin Whitespace}
    IN IF keep = {} THEN <<>>
       ELSE LET lo == CHOOSE i \in keep : \A j \in keep : i <= j
                hi == CHOOSE i \in keep : \A j \in keep : j <= i
            IN SubSeq(s, lo, hi)

\* str.translate(dict.fromkeys(map(ord, string.whitespace)))
RemoveWhitespace(s) == SelectSeq(s, LAMBDA c : c \notin Whitespace)

\* whether sub occurs in s at 1-based position i
OccursAt(s, sub, i) ==
    /\ i + Len(sub) - 1 <= Len(s)
    /\ \A k \in 1..Len(sub) : s[i + k - 1] = sub[k]

\* sub in s
Contains(s, sub) == \E i \in 1..(Len(s) + 1) : OccursAt(s, sub, i)

RECURSIVE ReplaceFrom(_, _, _, _)
ReplaceFrom(s, old, new, i) ==
    IF i > Len(s) THEN <<>>
    ELSE IF OccursAt(s, old, i)
         THEN new \o ReplaceFrom(s, old, new, i + Len(old))
         ELSE <<s[i]>> \o ReplaceFrom(s, old, new, i + 1)

\* str.replace(old, new) for a non-empty old
replace(s, old, new) == ReplaceFrom(s, old, new, 1)

RECURSIVE SplitFrom(_, _, _, _)
SplitFrom(s, sep, i, cur) ==
    IF i > Len(s) THEN <<cur>>
    ELSE IF s[i] = sep
         THEN <<cur>> \o SplitFrom(s, sep, i + 1, <<>>)
         ELSE SplitFrom(s, sep, i + 1, Append(cur, s[i]))

\* str.split(sep) for a one-character sep: empty tokens are kept
split(s, sep) == SplitFrom(s, sep, 1, <<>>)

RECURSIVE join(_, _)
\* sep.join(parts)
join(parts, sep) ==
    IF Len(parts) = 0 THEN <<>>
    ELSE IF Len(parts) = 1 THEN parts[1]
         ELSE parts[1] \o <<sep>> \o join(Tail(parts), sep)

(***************************************************************************)
(* int(s, base) and format(n, 'x').                                        *)
(***************************************************************************)
\* the characters after an optional sign
Unsigned(t) == IF Len(t) > 0 /\ t[1] \in {"+", "-"} THEN Tail(t) ELSE t

\* the characters after the base prefix int() accepts (0x for 16, 0b for 2);
\* one underscore may follow the prefix
Unprefixed(u, base) ==
    LET p == IF base = 16 THEN {"x", "X"}
             ELSE IF base = 2 THEN {"b", "B"} ELSE {}
    IN IF Len(u) >= 2 /\ u[1] = "0" /\ u[2] \in p
       THEN IF Len(u) >= 3 /\ u[3] = "_" THEN Drop(u, 4) ELSE Drop(u, 3)
       ELSE u

\* digits of the base separated by single underscores
IsDigitGroups(d, base) ==
    /\ Len(d) > 0
    /\ d[1] # "_"
    /\ d[Len(d)] # "_"
    /\ \A i \in DOMAIN d : d[i] \in DigitsOf(base) \cup {"_"}
    /\ \A i \in 1..(Len(d) - 1) : ~(d[i] = "_" /\ d[i + 1] = "_")

\* int(s, base) does not raise ValueError
IsInt(s, base) == IsDigitGroups(Unprefixed(Unsigned(strip(s)), base), base)

RECURSIVE DigitsValue(_, _)
DigitsValue(d, base) ==
    IF Len(d) = 0 THEN 0
    ELSE IF d[Len(d)] = "_" THEN DigitsValue(SubSeq(d, 1, Len(d) - 1), base)
         ELSE DigitsValue(SubSeq(d, 1, Len(d) - 1), base) * base
              + DigitVal(d[Len(d)])

\* the value int(s, base) returns when IsInt(s, base)
IntValue(s, base) ==
    LET t == strip(s)
        m == DigitsValue(Unprefixed(Unsigned(t), base), base)
    IN IF Len(t) > 0 /\ t[1] = "-" THEN 0 - m ELSE m

RECURSIVE HexOfNat(_)
HexOfNat(n) ==
    IF n < 16 THEN <<HexChar(n)>>
    ELSE HexOfNat(n \div 16) \o <<HexChar(n % 16)>>

\* format(n, 'x')
FormatHex(n) == IF n < 0 THEN <<"-">> \o HexOfNat(0 - n) ELSE HexOfNat(n)

(***************************************************************************)
(* Operations (lineparser.py lines 47-51).                                 *)
(***************************************************************************)
Operation(codetype, data) == [codetype |-> codetype, data |-> data]
Command(name, args) == [name |-> name, args |-> args]
Macro(name, count) == [name |-> name, count |-> count]
SYNTAX_ERROR == Operation("ERROR", "Invalid syntax")

\* a coerced argument of Python type int / str
IntArg(n) == [type |-> "int", val |-> n]
StrArg(s) == [type |-> "str", val |-> s]

\* outcome of a call: the returned list, or the exception that left it
Return(ops) == [exc |-> "none", ops |-> ops]
Raise(e) == [exc |-> e, ops |-> <<>>]

\* command names of the registry, as Python strings
n_loc == <<"l", "o", "c">>
n_gci == <<"g", "c", "i">>
n_patch == <<"p", "a", "t", "c", "h">>
n_add == <<"a", "d", "d">>
n_src == <<"s", "r", "c">>
n_asmsrc == <<"a", "s", "m", "s", "r", "c">>
n_file == <<"f", "i", "l", "e">>
n_geckocodelist ==
    <<"g", "e", "c", "k", "o", "c", "o", "d", "e", "l", "i", "s", "t">>
n_string == <<"s", "t", "r", "i", "n", "g">>
n_fill == <<"f", "i", "l", "l">>
n_asm == <<"a", "s", "m">>
n_asmend == <<"a", "s", "m", "e", "n", "d">>
n_c2 == <<"c", "2">>
n_c2end == <<"c", "2", "e", "n", "d">>
n_begin == <<"b", "e", "g", "i", "n">>
n_end == <<"e", "n", "d">>
n_echo == <<"e", "c", "h", "o">>
n_macro == <<"m", "a", "c", "r", "o">>
n_macroend == <<"m", "a", "c", "r", "o", "e", "n", "d">>
n_define == <<"d", "e", "f", "i", "n", "e">>
n_blockorder == <<"b", "l", "o", "c", "k", "o", "r", "d", "e", "r">>

\* the registry: each command's expected argument types, in order
COMMANDS ==
    (n_loc :> <<"hex">>) @@ (n_gci :> <<"hex">>) @@ (n_patch :> <<"hex">>)
    @@ (n_add :> <<"hex">>) @@ (n_src :> <<"str">>)
    @@ (n_asmsrc :> <<"str">>) @@ (n_file :> <<"str">>)
    @@ (n_geckocodelist :> <<"str">>) @@ (n_string :> <<"str">>)
    @@ (n_fill :> <<"int", "data">>) @@ (n_asm :> <<>>)
    @@ (n_asmend :> <<>>) @@ (n_c2 :> <<"hex">>) @@ (n_c2end :> <<>>)
    @@ (n_begin :> <<>>) @@ (n_end :> <<>>) @@ (n_echo :> <<"str">>)
    @@ (n_macro :> <<"var">>) @@ (n_macroend :> <<>>)
    @@ (n_define :> <<"var", "var">>)
    @@ (n_blockorder :> <<"int", "int", "int", "int", "int",
                          "int", "int", "int", "int", "int">>)

(***************************************************************************)
(* _format_hexdata, _format_bindata: [data, ops].                          *)
(***************************************************************************)
\* '0' * n
Zeros(n) == [i \in 1..n |-> "0"]

HEX_WARNING ==
    Operation("WARNING",
              "Hex data is not byte-aligned; padding to the nearest byte")
BIN_WARNING ==
    Operation("WARNING",
              "Binary data is not byte-aligned; padding to the nearest byte")

\* _format_hexdata padding on the right
_format_hexdata_padright(data) ==
    LET d == RemoveWhitespace(data)
        padding == Len(d) % 2
    IN IF IsInt(d, 16)
       THEN IF padding > 0
            THEN [data |-> d \o <<"0">>, ops |-> <<HEX_WARNING>>]
            ELSE [data |-> d, ops |-> <<>>]
       ELSE [data |-> <<>>, ops |-> <<SYNTAX_ERROR>>]

_format_hexdata(data) ==
    LET d == RemoveWhitespace(data)
        padding == Len(d) % 2
    IN IF IsInt(d, 16)
       THEN IF padding > 0
            THEN [data |-> <<"0">> \o d, ops |-> <<HEX_WARNING>>]
            ELSE [data |-> d, ops |-> <<>>]
       ELSE [data |-> <<>>, ops |-> <<SYNTAX_ERROR>>]

\* _format_bindata padding with the remainder instead of its complement
_format_bindata_padrem(data) ==
    LET d == RemoveWhitespace(Tail(data))
        padding == Len(d) % 8
    IN IF IsInt(d, 2)
       THEN IF padding > 0
            THEN [data |-> Zeros(padding) \o d, ops |-> <<BIN_WARNING>>]
            ELSE [data |-> d, ops |-> <<>>]
       ELSE [data |-> <<>>, ops |-> <<SYNTAX_ERROR>>]

_format_bindata(data) ==
    LET d == RemoveWhitespace(Tail(data))
        padding == Len(d) % 8
    IN IF IsInt(d, 2)
       THEN IF padding > 0
            THEN [data |-> Zeros(8 - padding) \o d, ops |-> <<BIN_WARNING>>]
            ELSE [data |-> d, ops |-> <<>>]
       ELSE [data |-> <<>>, ops |-> <<SYNTAX_ERROR>>]

(***************************************************************************)
(* _parse_command.                                                         *)
(***************************************************************************)
ArgError(index, what) ==
    Operation("ERROR",
              "Command argument " \o ToString(index) \o " must be " \o what)

DataError(index) == ArgError(index, "hex or binary data")

\* the 'data' branch of the loop body (lines 222-244) for the argument at
\* 1-based position index: [exc, ret, arg, warnings]; ret is the list an
\* early return hands back, <<>> when the loop goes on
CoerceData(arg, index) ==
    IF Len(arg) = 0
    THEN [exc |-> "IndexError", ret |-> <<>>, arg |-> <<>>, warnings |-> <<>>]
    ELSE IF arg[1] \in hexdigits
    THEN LET f == _format_hexdata(arg)
         IN IF Len(f.data) = 0
            THEN [exc |-> "none", ret |-> <<DataError(index)>>,
                  arg |-> <<>>, warnings |-> f.ops]
            ELSE [exc |-> "none", ret |-> <<>>,
                  arg |-> f.data, warnings |-> f.ops]
    ELSE IF Len(arg) = 1
    THEN [exc |-> "none", ret |-> <<DataError(index)>>,
          arg |-> <<>>, warnings |-> <<>>]
    ELSE IF arg[1] = "%"
    THEN LET f == _format_bindata(arg)
         IN IF Len(f.data) = 0
            THEN [exc |-> "none", ret |-> <<DataError(index)>>,
                  arg |-> <<>>, warnings |-> f.ops]
            ELSE IF ~IsInt(f.data, 2)
            THEN [exc |-> "ValueError", ret |-> <<>>,
                  arg |-> <<>>, warnings |-> f.ops]
            ELSE LET h == FormatHex(IntValue(f.data, 2))
                 IN [exc |-> "none", ret |-> <<>>,
                     arg |-> IF Len(h) % 2 > 0 THEN <<"0">> \o h ELSE h,
                     warnings |-> f.ops]
    ELSE [exc |-> "none", ret |-> <<DataError(index)>>,
          arg |-> <<>>, warnings |-> <<>>]

\* the 'int' branch (lines 218-221): the base int() is called with
IntBase(arg) ==
    IF Len(arg) >= 2 /\ arg[1] = "0" /\ arg[2] = "x" THEN 16 ELSE 10

RECURSIVE CoerceArgs(_, _, _, _, _)
\* the loop of lines 201-247 from 1-based position index on, then line 251
CoerceArgs(name, untyped_args, index, typed_args, op_list) ==
    IF index > Len(untyped_args)
    THEN Return(Append(op_list, Operation("COMMAND", Command(name, typed_args))))
    ELSE
    LET arg == untyped_args[index]
        expected_type == COMMANDS[name][index]
    IN CASE expected_type = "str" ->
              IF Len(arg) = 0 THEN Raise("IndexError")
              ELSE IF arg[1] # Quote \/ arg[Len(arg)] # Quote
              THEN Return(<<ArgError(index, "a string")>>)
              ELSE CoerceArgs(name, untyped_args, index + 1,
                              Append(typed_args,
                                     StrArg(replace(arg, <<Quote>>, <<>>))),
                              op_list)
         [] expected_type = "hex" ->
              IF IsInt(arg, 16)
              THEN CoerceArgs(name, untyped_args, index + 1,
                              Append(typed_args, IntArg(IntValue(arg, 16))),
                              op_list)
              ELSE Return(<<ArgError(index, "a hex value")>>)
         [] expected_type = "var" ->
              CoerceArgs(name, untyped_args, index + 1,
                         Append(typed_args, StrArg(arg)), op_list)
         [] expected_type = "int" ->
              IF IsInt(arg, IntBase(arg))
              THEN CoerceArgs(name, untyped_args, index + 1,
                              Append(typed_args,
                                     IntArg(IntValue(arg, IntBase(arg)))),
                              op_list)
              ELSE Raise("ValueError")
         [] expected_type = "data" ->
              LET c == CoerceData(arg, index)
              IN IF c.exc # "none" THEN Raise(c.exc)
                 ELSE IF Len(c.ret) > 0 THEN Return(c.ret)
                 ELSE CoerceArgs(name, untyped_args, index + 1,
                                 Append(typed_args, StrArg(c.arg)),
                                 op_list \o c.warnings)

ArityError(expected_arg_count, arg_count) ==
    Operation("ERROR",
              "Command expected " \o ToString(expected_arg_count)
              \o " arg(s) but received " \o ToString(arg_count))

\* _parse_command rejecting only surplus arguments
_parse_command_surplus(name, args) ==
    IF name \notin DOMAIN COMMANDS
    THEN Return(<<Operation("ERROR", "Unknown command")>>)
    ELSE IF Len(args) > Len(COMMANDS[name])
    THEN Return(<<ArityError(Len(COMMANDS[name]), Len(args))>>)
    ELSE CoerceArgs(name, args, 1, <<>>, <<>>)

_parse_command(name, args) ==
    IF name \notin DOMAIN COMMANDS
    THEN Return(<<Operation("ERROR", "Unknown command")>>)
    ELSE IF Len(args) # Len(COMMANDS[name])
    THEN Return(<<ArityError(Len(COMMANDS[name]), Len(args))>>)
    ELSE CoerceArgs(name, args, 1, <<>>, <<>>)

(***************************************************************************)
(* parse_opcodes.                                                          *)
(***************************************************************************)
\* script_line[:comment_index] (lines 60-62)
TrimComment(s) ==
    IF FindChar(s, Hash) > 0 THEN SubSeq(s, 1, FindChar(s, Hash) - 1) ELSE s

\* last 1-based index of the whitespace run that starts at i
RunEnd(s, i) ==
    CHOOSE j \in i..Len(s) :
        /\ \A k \in i..j : s[k] \in Whitespace
        /\ (j = Len(s) \/ s[j + 1] \notin Whitespace)

\* the lookahead (?=([^"]*"[^"]*")*[^"]*$) at the text after position j
LookaheadMatches(s, j) == CountChar(Drop(s, j + 1), Quote) % 2 = 0

RECURSIVE SubWhitespace(_, _)
\* re.sub(r'\s+(?=([^"]*"[^"]*")*[^"]*$)', ' ', s), scanning from position i
SubWhitespace(s, i) ==
    IF i > Len(s) THEN <<>>
    ELSE IF s[i] \notin Whitespace THEN <<s[i]>> \o SubWhitespace(s, i + 1)
    ELSE LET j == RunEnd(s, i)
         IN IF LookaheadMatches(s, j)
            THEN <<" ">> \o SubWhitespace(s, j + 1)
            ELSE SubSeq(s, i, j) \o SubWhitespace(s, j + 1)

RECURSIVE AliasLoop(_, _, _, _)
\* the loop of lines 70-71 from the i-th table entry on
AliasLoop(script_line, table, i, aliased_line) ==
    IF i > Len(table) THEN aliased_line
    ELSE IF Contains(script_line, table[i].key)
         THEN AliasLoop(script_line, table, i + 1,
                        replace(script_line, table[i].key, table[i].value))
         ELSE AliasLoop(script_line, table, i + 1, aliased_line)

\* lines 59-72: the line the classification works on
Normalize(line, table) ==
    LET s == SubWhitespace(strip(TrimComment(line)), 1)
    IN AliasLoop(s, table, 1, s)

\* the macro count of lines 102-104
CountBase(count) ==
    IF Len(count) >= 2 /\ count[1] = "0" /\ count[2] = "x" THEN 16 ELSE 10

\* the macro branch accepting a count of 0
ParseMacro_zero(script_line) ==
    LET args == split(script_line, " ")
    IN IF Len(args) = 1
       THEN <<Operation("MACRO", Macro(script_line, 1))>>
       ELSE IF Len(args) = 2
       THEN IF ~IsInt(args[2], CountBase(args[2]))
            THEN <<SYNTAX_ERROR>>
            ELSE IF IntValue(args[2], CountBase(args[2])) < 0
            THEN <<Operation("ERROR", "Macro count must be greater than 0")>>
            ELSE <<Operation("MACRO",
                             Macro(args[1],
                                   IntValue(args[2], CountBase(args[2]))))>>
       ELSE <<SYNTAX_ERROR>>

\* lines 94-112, for the line without its '+'
ParseMacro(script_line) ==
    LET args == split(script_line, " ")
    IN IF Len(args) = 1
       THEN <<Operation("MACRO", Macro(script_line, 1))>>
       ELSE IF Len(args) = 2
       THEN IF ~IsInt(args[2], CountBase(args[2]))
            THEN <<SYNTAX_ERROR>>
            ELSE IF IntValue(args[2], CountBase(args[2])) < 1
            THEN <<Operation("ERROR", "Macro count must be greater than 0")>>
            ELSE <<Operation("MACRO",
                             Macro(args[1],
                                   IntValue(args[2], CountBase(args[2]))))>>
       ELSE <<SYNTAX_ERROR>>

RECURSIVE QuoteMerge(_, _)
\* the loop of lines 127-130 over quote_args from 1-based position i on
QuoteMerge(quote_args, i) ==
    IF i > Len(quote_args) THEN <<>>
    ELSE IF Len(quote_args[i]) = 0 THEN QuoteMerge(quote_args, i + 1)
    ELSE IF i % 2 = 1
         THEN split(quote_args[i], " ") \o QuoteMerge(quote_args, i + 1)
         ELSE <<<<Quote>> \o quote_args[i] \o <<Quote>>>>
              \o QuoteMerge(quote_args, i + 1)

\* lines 120-133: [name, args] handed to _parse_command
Tokenize(script_line) ==
    LET tokens == split(script_line, " ")
        command_name == Tail(tokens[1])
        rest == Tail(tokens)
        command_args ==
            IF Contains(script_line, <<Quote>>)
            THEN QuoteMerge(split(join(rest, " "), Quote), 1)
            ELSE rest
    IN IF command_name = n_define /\ Len(command_args) > 2
       THEN [name |-> command_name,
             args |-> <<command_args[1], join(Tail(command_args), " ")>>]
       ELSE [name |-> command_name, args |-> command_args]

\* lines 115-136
ParseCommandLine(script_line) ==
    IF CountChar(script_line, Quote) % 2 = 1
    THEN Return(<<SYNTAX_ERROR>>)
    ELSE _parse_command(Tokenize(script_line).name, Tokenize(script_line).args)

\* the data branches appending the primary Operation before the warnings
ParseData_first(codetype, f) ==
    IF Len(f.data) > 0
    THEN <<Operation(codetype, f.data)>> \o f.ops
    ELSE f.ops

\* lines 75-90 for hex and binary lines
ParseData(codetype, f) ==
    IF Len(f.data) > 0
    THEN Append(f.ops, Operation(codetype, f.data))
    ELSE f.ops

\* lines 74-142
Classify(script_line) ==
    IF Len(script_line) = 0 THEN Raise("IndexError")
    ELSE IF script_line[1] \in hexdigits
    THEN Return(ParseData("HEX", _format_hexdata(script_line)))
    ELSE IF Len(script_line) = 1 THEN Return(<<SYNTAX_ERROR>>)
    ELSE IF script_line[1] = "%"
    THEN Return(ParseData("BIN", _format_bindata(script_line)))
    ELSE IF script_line[1] = "+" THEN Return(ParseMacro(Tail(script_line)))
    ELSE IF script_line[1] = "!" THEN ParseCommandLine(script_line)
    ELSE Return(<<SYNTAX_ERROR>>)

parse_opcodes(script_line, table) ==
    IF Len(script_line) = 0 THEN Return(<<>>)
    ELSE Classify(Normalize(script_line, table))

(***************************************************************************)
(* Inputs: a line is one of the prefixes below followed by up to MaxLen    *)
(* characters of Alphabet.                                                 *)
(***************************************************************************)
Alphabet == {" ", "\t", Quote, Hash, "0", "1", "A", "x"}

RECURSIVE StringsUpTo(_)
\* every string over Alphabet of length at most n
StringsUpTo(n) ==
    IF n = 0 THEN {<<>>}
    ELSE LET shorter == StringsUpTo(n - 1)
         IN shorter \cup {Append(t, c) : t \in shorter, c \in Alphabet}

\* starts of lines: data, macro invocations and commands of every argument
\* type, some already carrying part of their arguments
Prefixes ==
    { <<>>,
      <<"1", "_">>,
      <<"1", "A">>,
      <<"%">>,
      <<"%", "-">>,
      <<"%", "1", "0", "1">>,
      <<"%", "1", "0", "1", "0", "1", "0", "1">>,
      <<"+">>,
      <<"+", "m", " ">>,
      <<"+", "m", " ", "-">>,
      <<"+", "m", " ", "0", "x">>,
      <<"!">>,
      <<"!">> \o n_asm,
      <<"!">> \o n_loc \o <<" ">>,
      <<"!">> \o n_loc \o <<" ", "-">>,
      <<"!">> \o n_echo \o <<" ">>,
      <<"!">> \o n_echo \o <<" ", Quote, "a">>,
      <<"!">> \o n_echo \o <<" ", Quote, "a", " ", " ", " ", "b">>,
      <<"!">> \o n_macro \o <<" ">>,
      <<"!">> \o n_define \o <<" ", "k", " ">>,
      <<"!">> \o n_define \o <<" ", "k", " ", "1", " ">>,
      <<"!">> \o n_fill \o <<" ">>,
      <<"!">> \o n_fill \o <<" ", "x", " ">>,
      <<"!">> \o n_fill \o <<" ", "0", "x", "1", " ">>,
      <<"!">> \o n_fill \o <<" ", "1", "0", " ">>,
      <<"!">> \o n_fill \o <<" ", "1", "0", " ", "1">>,
      <<"!">> \o n_fill \o <<" ", "1", " ", "%">>,
      <<"!">> \o n_fill \o <<" ", "1", " ", "%", "-">>,
      <<"!">> \o n_fill \o <<" ", "1", " ", "%", "1", "0", "1", "0", "1", "0">>,
      <<"!">> \o n_blockorder
          \o <<" ", "0", " ", "1", " ", "2", " ", "3", " ", "4",
               " ", "5", " ", "6", " ", "7", " ", "8", " ">> }

\* a prefix and a free part, or a short line with its line terminator
Lines ==
    {p \o b : p \in Prefixes, b \in StringsUpTo(MaxLen)}
    \cup {b \o <<"\n">> : b \in StringsUpTo(MaxLen)}

\* alias entries an external caller may register
AliasPool == { [key |-> <<"x">>, value |-> <<"1", "A">>],
               [key |-> <<"A">>, value |-> <<>>] }

(***************************************************************************)
(* State of a melee_gamedata object (meleegci.py).  raw_bytes is kept as   *)
(* its block count field (bytes 0x38-0x39) and its blocks from 0x2040 on;  *)
(* of each block the byte at 0x0f (the last checksum byte, the one pack    *)
(* and unpack read first) and DataBytes bytes of data are kept.            *)
(***************************************************************************)
VARIABLES
    gci_arg_packed, \* the packed argument given to __init__
    gci_packed,     \* self.packed: "True" | "False" | "None"
    gci_raw_bytes,  \* self.raw_bytes
    gci_call        \* the last method call and how it ended

gci_vars == <<gci_arg_packed, gci_packed, gci_raw_bytes, gci_call>>

\* the values of the gamedata variables while no object is in use
GciAbsent ==
    /\ gci_arg_packed = "None"
    /\ gci_packed = "None"
    /\ gci_raw_bytes = [block_count |-> 0, blocks |-> <<>>]
    /\ gci_call = [op |-> "none", outcome |-> "returned"]

(***************************************************************************)
(* The program: the module's alias table and one parse_opcodes call at a   *)
(* time.                                                                   *)
(***************************************************************************)
VARIABLES
    aliases,      \* the dict aliases, as its entries in iteration order
    pc,           \* "idle" | "returned" | "raised"
    script_line,  \* argument of the last call
    aliased_line, \* the call's normalized, alias-substituted line (line 72)
    op_list,      \* list the last call returned
    exc           \* exception the last call raised, "none" otherwise

vars == <<aliases, pc, script_line, aliased_line, op_list, exc>>

Init ==
    /\ aliases = <<>>
    /\ pc = "idle"
    /\ script_line = <<>>
    /\ aliased_line = <<>>
    /\ op_list = <<>>
    /\ exc = "none"
    /\ GciAbsent

\* aliases[key] = value, done by the caller between two parse calls
RegisterAlias(a) ==
    /\ pc = "idle"
    /\ IF \E i \in DOMAIN aliases : aliases[i].key = a.key
       THEN aliases' = [i \in DOMAIN aliases |->
                          IF aliases[i].key = a.key THEN a ELSE aliases[i]]
       ELSE /\ Len(aliases) < MaxAliases
            /\ aliases' = Append(aliases, a)
    /\ UNCHANGED <<pc, script_line, aliased_line, op_list, exc>>
    /\ UNCHANGED gci_vars

\* one call parse_opcodes(line): it returns a list or raises
Parse ==
    /\ pc = "idle"
    /\ \E line \in Lines :
          LET r == parse_opcodes(line, aliases)
          IN /\ pc' = IF r.exc = "none" THEN "returned" ELSE "raised"
             /\ script_line' = line
             /\ aliased_line' = IF Len(line) = 0 THEN <<>>
                                ELSE Normalize(line, aliases)
             /\ op_list' = r.ops
             /\ exc' = r.exc
    /\ UNCHANGED aliases
    /\ UNCHANGED gci_vars

\* the caller takes the returned list and goes on to the next line
NextLine ==
    /\ pc = "returned"
    /\ pc' = "idle"
    /\ script_line' = <<>>
    /\ aliased_line' = <<>>
    /\ op_list' = <<>>
    /\ UNCHANGED <<aliases, exc>>
    /\ UNCHANGED gci_vars

Next ==
    \/ \E a \in AliasPool : RegisterAlias(a)
    \/ Parse
    \/ NextLine

Spec == Init /\ [][Next]_<<vars, gci_vars>>

(***************************************************************************)
(* melee_gamedata: pack, unpack, recompute_checksums.                      *)
(***************************************************************************)
\* byte values the checked files are made of
Bytes == {0, 255}

\* the kept part of one block
Blocks == [checksum : Bytes, data : [1..DataBytes -> Bytes]]

\* the raw_bytes an object is constructed with: any block count field over
\* any number of blocks actually present
GciFiles ==
    {[block_count |-> h, blocks |-> bs] :
        h \in 0..(MaxBlocks + 1),
        bs \in UNION {[1..n -> Blocks] : n \in 0..MaxBlocks}}

\* blocksize() (lines 39-40)
blocksize(raw_bytes) == raw_bytes.block_count

\* number of rounds of the loops over range(0, self.blocksize()-1)
Rounds(raw_bytes) ==
    IF blocksize(raw_bytes) - 1 > 0 THEN blocksize(raw_bytes) - 1 ELSE 0

\* the loop indexes raw_bytes past its end (IndexError)
Overruns(raw_bytes) == Rounds(raw_bytes) > Len(raw_bytes.blocks)

\* number of blocks a loop has gone through when it ends
Reached(raw_bytes) ==
    IF Overruns(raw_bytes) THEN Len(raw_bytes.blocks) ELSE Rounds(raw_bytes)

\* gci_encode.encode_byte(prev, cursor) and decode_byte(prev, cursor): the
\* bytes they may return
encode_byte(prev, cursor) == Bytes
decode_byte(prev, cursor) == Bytes

\* data of every block as the loop of pack (lines 226-234) can leave it:
\* each byte is encoded with the encoded byte before it
PackedData(raw_bytes) ==
    {d \in [1..Len(raw_bytes.blocks) -> [1..DataBytes -> Bytes]] :
        \A b \in 1..Len(raw_bytes.blocks) :
            IF b <= Reached(raw_bytes)
            THEN \A i \in 1..DataBytes :
                     d[b][i] \in encode_byte(
                         IF i = 1 THEN raw_bytes.blocks[b].checksum
                         ELSE d[b][i - 1],
                         raw_bytes.blocks[b].data[i])
            ELSE d[b] = raw_bytes.blocks[b].data}

\* data of every block as the loop of unpack (lines 204-212) can leave it:
\* each byte is decoded with the still encoded byte before it
UnpackedData(raw_bytes) ==
    {d \in [1..Len(raw_bytes.blocks) -> [1..DataBytes -> Bytes]] :
        \A b \in 1..Len(raw_bytes.blocks) :
            IF b <= Reached(raw_bytes)
            THEN \A i \in 1..DataBytes :
                     d[b][i] \in decode_byte(
                         IF i = 1 THEN raw_bytes.blocks[b].checksum
                         ELSE raw_bytes.blocks[b].data[i - 1],
                         raw_bytes.blocks[b].data[i])
            ELSE d[b] = raw_bytes.blocks[b].data}

\* raw_bytes with the data of its blocks replaced
WithData(raw_bytes, d) ==
    [raw_bytes EXCEPT !.blocks =
        [b \in 1..Len(raw_bytes.blocks) |->
            [raw_bytes.blocks[b] EXCEPT !.data = d[b]]]]

RECURSIVE SumBytes(_, _)
SumBytes(data, i) == IF i = 0 THEN 0 ELSE data[i] + SumBytes(data, i - 1)

\* byte 0x0f of _checksum (lines 82-109): its seed 0x10 plus the data bytes
\* added to it, cut to a byte; the loop of lines 103-108 stops before it
ChecksumByte(data) == (16 + SumBytes(data, DataBytes)) % 256

\* raw_bytes after the write-back loop of lines 165-170
WithChecksums(raw_bytes) ==
    [raw_bytes EXCEPT !.blocks =
        [b \in 1..Len(raw_bytes.blocks) |->
            IF b <= Rounds(raw_bytes)
            THEN [raw_bytes.blocks[b] EXCEPT
                      !.checksum = ChecksumByte(raw_bytes.blocks[b].data)]
            ELSE raw_bytes.blocks[b]]]

\* pack setting the flag whatever it was
PackedAfterPack_always(packed) == "True"

\* lines 235-236
PackedAfterPack(packed) == IF packed = "False" THEN "True" ELSE packed

\* lines 213-214
PackedAfterUnpack(packed) == IF packed = "True" THEN "False" ELSE packed

\* melee_gamedata(raw_bytes=..., packed=...): lines 24-35
GciInit ==
    /\ aliases = <<>>
    /\ pc = "idle"
    /\ script_line = <<>>
    /\ aliased_line = <<>>
    /\ op_list = <<>>
    /\ exc = "none"
    /\ gci_arg_packed \in {"True", "False", "None"}
    /\ gci_packed = gci_arg_packed
    /\ gci_raw_bytes \in GciFiles
    /\ gci_call = [op |-> "init", outcome |-> "returned"]

\* pack() (lines 216-236)
Pack ==
    /\ IF gci_packed = "True"
       THEN /\ gci_call' = [op |-> "pack", outcome |-> "Exception"]
            /\ UNCHANGED <<gci_packed, gci_raw_bytes>>
       ELSE \E d \in PackedData(gci_raw_bytes) :
               /\ gci_raw_bytes' = WithData(gci_raw_bytes, d)
               /\ IF Overruns(gci_raw_bytes)
                  THEN /\ gci_call' = [op |-> "pack", outcome |-> "IndexError"]
                       /\ UNCHANGED gci_packed
                  ELSE /\ gci_call' = [op |-> "pack", outcome |-> "returned"]
                       /\ gci_packed' = PackedAfterPack(gci_packed)
    /\ UNCHANGED <<vars, gci_arg_packed>>

\* unpack() (lines 194-214)
Unpack ==
    /\ IF gci_packed = "False"
       THEN /\ gci_call' = [op |-> "unpack", outcome |-> "Exception"]
            /\ UNCHANGED <<gci_packed, gci_raw_bytes>>
       ELSE \E d \in UnpackedData(gci_raw_bytes) :
               /\ gci_raw_bytes' = WithData(gci_raw_bytes, d)
               /\ IF Overruns(gci_raw_bytes)
                  THEN /\ gci_call' =
                              [op |-> "unpack", outcome |-> "IndexError"]
                       /\ UNCHANGED gci_packed
                  ELSE /\ gci_call' = [op |-> "unpack", outcome |-> "returned"]
                       /\ gci_packed' = PackedAfterUnpack(gci_packed)
    /\ UNCHANGED <<vars, gci_arg_packed>>

\* recompute_checksums() (lines 148-170)
RecomputeChecksums ==
    /\ IF gci_packed = "True"
       THEN /\ gci_call' = [op |-> "recompute", outcome |-> "Exception"]
            /\ UNCHANGED gci_raw_bytes
       ELSE IF Overruns(gci_raw_bytes)
       THEN /\ gci_call' = [op |-> "recompute", outcome |-> "IndexError"]
            /\ UNCHANGED gci_raw_bytes
       ELSE /\ gci_call' = [op |-> "recompute", outcome |-> "returned"]
            /\ gci_raw_bytes' = WithChecksums(gci_raw_bytes)
    /\ UNCHANGED <<vars, gci_arg_packed, gci_packed>>

GciNext ==
    \/ Pack
    \/ Unpack
    \/ RecomputeChecksums

SpecGci == GciInit /\ [][GciNext]_<<vars, gci_vars>>

(***************************************************************************)
(* Properties.                                                             *)
(***************************************************************************)
\* a call has ended, by a return or by an exception
Ended == pc \in {"returned", "raised"}

IsPrimary(op) == op.codetype \in {"HEX", "BIN", "COMMAND", "MACRO"}

\* C1: parse_opcodes returns a list for every line and every alias table; it
\* never ends in an exception, malformed input is reported as an ERROR
\* Operation of the returned list.
C1_NeverRaises == pc # "raised"

\* the line is empty, whitespace only, or whitespace followed by a comment
IsBlankOrComment(line) ==
    \A i \in DOMAIN line :
        line[i] \in Whitespace \/ \E j \in 1..i : line[j] = Hash

\* C2: a call on an empty, whitespace-only or comment-only line returns the
\* empty list: no Operation of any kind.
C2_BlankYieldsEmpty ==
    (Ended /\ IsBlankOrComment(script_line))
        => (pc = "returned" /\ op_list = <<>>)

LowerHexDigits == {"0", "1", "2", "3", "4", "5", "6", "7", "8", "9",
                   "a", "b", "c", "d", "e", "f"}

\* a non-empty string of even length over the digit set
IsAlignedOver(s, digits) ==
    /\ Len(s) > 0
    /\ Len(s) % 2 = 0
    /\ \A i \in DOMAIN s : s[i] \in digits

\* C3: every HEX payload, every BIN payload and every 'data' argument of a
\* COMMAND in a returned list is a non-empty, even-length string of lower-case
\* digits of its base.
C3_PayloadsAreLowerCaseDigits ==
    pc = "returned" =>
        \A i \in DOMAIN op_list :
            /\ op_list[i].codetype = "HEX"
                   => IsAlignedOver(op_list[i].data, LowerHexDigits)
            /\ op_list[i].codetype = "BIN"
                   => IsAlignedOver(op_list[i].data, {"0", "1"})
            /\ op_list[i].codetype = "COMMAND"
                   => \A j \in DOMAIN op_list[i].data.args :
                          COMMANDS[op_list[i].data.name][j] = "data"
                              => /\ op_list[i].data.args[j].type = "str"
                                 /\ IsAlignedOver(op_list[i].data.args[j].val,
                                                  LowerHexDigits)

\* the tokens of a command line: the name after '!' and the arguments, with
\* each quoted span kept as one argument; for a line with balanced quotes
CommandTokens == Tokenize(aliased_line)

\* the value a token has to be coerced to for a declared type tag
IsCoerced(typed, tag, token) ==
    CASE tag = "hex" ->
           /\ typed.type = "int"
           /\ IsInt(token, 16)
           /\ typed.val = IntValue(token, 16)
      [] tag = "int" ->
           /\ typed.type = "int"
           /\ IF Len(token) >= 2 /\ SubSeq(token, 1, 2) = <<"0", "x">>
              THEN IsInt(token, 16) /\ typed.val = IntValue(token, 16)
              ELSE IsInt(token, 10) /\ typed.val = IntValue(token, 10)
      [] tag = "str" ->
           /\ typed.type = "str"
           /\ token = <<Quote>> \o typed.val \o <<Quote>>
      [] tag = "var" ->
           /\ typed.type = "str"
           /\ typed.val = token
      [] tag = "data" ->
           /\ typed.type = "str"
           /\ Len(typed.val) > 0

RECURSIVE FoldAliases(_, _, _)
\* every alias of the table from entry i on, applied in turn to the line the
\* earlier ones produced
FoldAliases(line, table, i) ==
    IF i > Len(table) THEN line
    ELSE FoldAliases(IF Contains(line, table[i].key)
                     THEN replace(line, table[i].key, table[i].value)
                     ELSE line,
                     table, i + 1)

\* C5: the line that is classified is the left fold of replace over the alias
\* table: every alias whose key occurs is substituted, each on the output of
\* the earlier ones.
C5_AliasesAreFolded ==
    (Ended /\ Len(script_line) > 0) =>
        aliased_line =
            FoldAliases(SubWhitespace(strip(TrimComment(script_line)), 1),
                        aliases, 1)

\* C6: in a returned list every WARNING is followed by a primary Operation,
\* there is at most one primary Operation, an ERROR never shares the list with
\* a primary Operation, and a COMMAND is the last element.
C6_CausalOrder ==
    pc = "returned" =>
        /\ Cardinality({i \in DOMAIN op_list : IsPrimary(op_list[i])}) <= 1
        /\ \A i \in DOMAIN op_list :
               op_list[i].codetype = "WARNING"
                   => \E j \in (i + 1)..Len(op_list) : IsPrimary(op_list[j])
        /\ (\E i \in DOMAIN op_list : op_list[i].codetype = "ERROR")
               => \A j \in DOMAIN op_list : ~IsPrimary(op_list[j])
        /\ \A i \in DOMAIN op_list :
               op_list[i].codetype = "COMMAND"
                   => /\ i = Len(op_list)
                      /\ \A j \in 1..(i - 1) : op_list[j].codetype = "WARNING"

\* a returned list with a WARNING ahead of its COMMAND
C6_Witness ==
    /\ pc = "returned"
    /\ Len(op_list) = 2
    /\ op_list[1].codetype = "WARNING"
    /\ op_list[2].codetype = "COMMAND"

RECURSIVE CollapseOutsideQuotes(_, _, _)
\* whitespace collapsing by a left-to-right scan that counts the quote
\* characters seen so far: a run met after an even number of quotes becomes
\* one space, a run met after an odd number is kept
CollapseOutsideQuotes(s, i, quotes) ==
    IF i > Len(s) THEN <<>>
    ELSE IF s[i] \notin Whitespace
    THEN <<s[i]>>
         \o CollapseOutsideQuotes(s, i + 1,
                                  IF s[i] = Quote THEN quotes + 1 ELSE quotes)
    ELSE IF quotes % 2 = 1
    THEN <<s[i]>> \o CollapseOutsideQuotes(s, i + 1, quotes)
    ELSE IF i > 1 /\ s[i - 1] \in Whitespace
    THEN CollapseOutsideQuotes(s, i + 1, quotes)
    ELSE <<" ">> \o CollapseOutsideQuotes(s, i + 1, quotes)

\* C7: whitespace runs are collapsed exactly where an even number of quote
\* characters precede them, for every line, and a quoted string argument
\* reaches its COMMAND with its inner whitespace as written.
C7_CollapseCountsQuotesSeen ==
    (Ended /\ Len(script_line) > 0 /\ aliases = <<>>) =>
        /\ aliased_line =
               CollapseOutsideQuotes(strip(TrimComment(script_line)), 1, 0)
        /\ \A i \in DOMAIN op_list :
               op_list[i].codetype = "COMMAND" =>
                   \A j \in DOMAIN op_list[i].data.args :
                       COMMANDS[op_list[i].data.name][j] = "str" =>
                           Contains(script_line,
                                    <<Quote>> \o op_list[i].data.args[j].val
                                    \o <<Quote>>)

\* the digits of the classified line: its characters after the discriminator
\* (skip = 1 for '%' lines, 0 for hex lines), whitespace removed
DigitsOfLine(skip) == RemoveWhitespace(Drop(aliased_line, skip + 1))

\* the classified line is a hex line of hex digits (and whitespace) only
IsHexDigitLine ==
    /\ Len(aliased_line) > 0
    /\ aliased_line[1] \in hexdigits
    /\ \A i \in DOMAIN aliased_line :
           aliased_line[i] \in hexdigits \cup Whitespace

\* the classified line is '%' followed by at least one bit, of bits (and
\* whitespace) only
IsBitLine ==
    /\ Len(aliased_line) > 1
    /\ aliased_line[1] = "%"
    /\ Len(DigitsOfLine(1)) > 0
    /\ \A i \in 2..Len(aliased_line) :
           aliased_line[i] \in bindigits \cup Whitespace

\* the list is [WARNING, codetype(payload)] when padded, [codetype(payload)]
\* otherwise
IsDataResult(ops, codetype, payload, padded) ==
    IF padded
    THEN /\ Len(ops) = 2
         /\ ops[1].codetype = "WARNING"
         /\ ops[2].codetype = codetype
         /\ ops[2].data = payload
    ELSE /\ Len(ops) = 1
         /\ ops[1].codetype = codetype
         /\ ops[1].data = payload

\* C8: for a line of valid digits the formatter warns once and left-pads
\* with zeros to the byte boundary exactly when the stripped length is
\* misaligned (hex: odd, one '0'; binary: r = length mod 8 > 0, 8 - r zeros),
\* and returns the stripped digits unchanged, without a warning, otherwise.
C8_PadsIffMisaligned ==
    pc = "returned" =>
        /\ IsHexDigitLine =>
               LET d == DigitsOfLine(0)
               IN IsDataResult(op_list, "HEX",
                               IF Len(d) % 2 = 1 THEN <<"0">> \o d ELSE d,
                               Len(d) % 2 = 1)
        /\ IsBitLine =>
               LET d == DigitsOfLine(1)
                   r == Len(d) % 8
               IN IsDataResult(op_list, "BIN",
                               IF r > 0 THEN [k \in 1..(8 - r) |-> "0"] \o d
                               ELSE d,
                               r > 0)

\* a three-bit '%' line padded to one byte behind its WARNING
C8_Witness ==
    /\ pc = "returned"
    /\ IsBitLine
    /\ Len(DigitsOfLine(1)) = 3
    /\ Len(op_list) = 2
    /\ op_list[1].codetype = "WARNING"
    /\ op_list[2].codetype = "BIN"
    /\ Len(op_list[2].data) = 8

\* C9: the formatted output of a valid digit string, fed to the formatter of
\* its base again (a BIN payload behind its '%'), comes back unchanged and
\* without a WARNING or an ERROR.
C9_FormatterIdempotent ==
    pc = "returned" =>
        /\ IsHexDigitLine =>
               \A i \in DOMAIN op_list :
                   op_list[i].codetype = "HEX" =>
                       /\ _format_hexdata(op_list[i].data).data
                              = op_list[i].data
                       /\ _format_hexdata(op_list[i].data).ops = <<>>
        /\ IsBitLine =>
               \A i \in DOMAIN op_list :
                   op_list[i].codetype = "BIN" =>
                       /\ _format_bindata(<<"%">> \o op_list[i].data).data
                              = op_list[i].data
                       /\ _format_bindata(<<"%">> \o op_list[i].data).ops
                              = <<>>

\* a seven-bit '%' line whose payload was padded to one byte
C9_Witness ==
    /\ pc = "returned"
    /\ IsBitLine
    /\ Len(DigitsOfLine(1)) = 7
    /\ Len(op_list) = 2
    /\ op_list[2].codetype = "BIN"
    /\ Len(op_list[2].data) = 8

\* the tokens of a macro line: the text after '+', split on single spaces
MacroTokens == split(Tail(aliased_line), " ")

\* the list is exactly [ERROR(message)]
IsOnlyError(ops, message) ==
    /\ Len(ops) = 1
    /\ ops[1].codetype = "ERROR"
    /\ ops[1].data = message

\* the list is exactly [MACRO(name, count)]
IsOnlyMacro(ops, name, count) ==
    /\ Len(ops) = 1
    /\ ops[1].codetype = "MACRO"
    /\ ops[1].data.name = name
    /\ ops[1].data.count = count

\* C10: a '+' line longer than one character yields [MACRO(token, 1)] for
\* one token; for two tokens [MACRO(name, n)] when the second is an integer
\* n >= 1 (base 16 behind '0x', base 10 otherwise), the count ERROR when
\* n < 1 and the syntax ERROR when it is no integer; the syntax ERROR for
\* three or more tokens.  Every MACRO returned has a count >= 1.
C10_MacroCount ==
    pc = "returned" =>
        /\ (Len(aliased_line) > 1 /\ aliased_line[1] = "+") =>
               LET t == MacroTokens
                   base == IF Len(t) >= 2 /\ Len(t[2]) >= 2
                              /\ SubSeq(t[2], 1, 2) = <<"0", "x">>
                           THEN 16 ELSE 10
               IN CASE Len(t) = 1 -> IsOnlyMacro(op_list, t[1], 1)
                    [] Len(t) = 2 ->
                         IF ~IsInt(t[2], base)
                         THEN IsOnlyError(op_list, "Invalid syntax")
                         ELSE IF IntValue(t[2], base) >= 1
                         THEN IsOnlyMacro(op_list, t[1], IntValue(t[2], base))
                         ELSE IsOnlyError(op_list,
                                          "Macro count must be greater than 0")
                    [] OTHER -> IsOnlyError(op_list, "Invalid syntax")
        /\ \A i \in DOMAIN op_list :
               op_list[i].codetype = "MACRO" => op_list[i].data.count >= 1

\* a macro invoked with a count read from a 0x literal
C10_Witness ==
    /\ pc = "returned"
    /\ Len(aliased_line) > 1
    /\ aliased_line[1] = "+"
    /\ Len(MacroTokens) = 2
    /\ Len(op_list) = 1
    /\ Len(MacroTokens[2]) > 2
    /\ SubSeq(MacroTokens[2], 1, 2) = <<"0", "x">>
    /\ op_list[1].codetype = "MACRO"
    /\ op_list[1].data.count > 15

\* what one step of a melee_gamedata object has to satisfy when the packed
\* flag is known (True or False)
KnownFlagStep ==
    gci_packed # "None" =>
        /\ gci_packed' # "None"
        /\ (gci_call'.op = "pack" /\ gci_call'.outcome = "returned")
               => (gci_packed = "False" /\ gci_packed' = "True")
        /\ (gci_call'.op = "unpack" /\ gci_call'.outcome = "returned")
               => (gci_packed = "True" /\ gci_packed' = "False")
        /\ (gci_call'.op = "pack" /\ gci_packed = "True")
               => /\ gci_call'.outcome = "Exception"
                  /\ UNCHANGED <<gci_packed, gci_raw_bytes>>
        /\ (gci_call'.op = "unpack" /\ gci_packed = "False")
               => /\ gci_call'.outcome = "Exception"
                  /\ UNCHANGED <<gci_packed, gci_raw_bytes>>
        /\ (gci_call'.op = "recompute" /\ gci_packed = "True")
               => /\ gci_call'.outcome = "Exception"
                  /\ UNCHANGED <<gci_packed, gci_raw_bytes>>

\* what one step has to satisfy when the flag is None: it stays None and no
\* call is refused on account of the flag
UnknownFlagStep ==
    gci_packed = "None" =>
        /\ gci_packed' = "None"
        /\ gci_call'.outcome # "Exception"

\* C11 (as amended): constructed with packed True or False, pack() and
\* unpack() strictly alternate: a pack() that returns turns the flag from
\* False to True, an unpack() that returns turns it from True to False, the
\* repeated call raises and leaves raw_bytes and the flag unchanged, and
\* recompute_checksums() raises without writing while the flag is True;
\* constructed with packed None, the flag stays None and no call is refused.
C11_AlternationWhenFlagKnown ==
    [][KnownFlagStep /\ UnknownFlagStep]_<<vars, gci_vars>>

\* constructed unpacked, packed once, and the second pack() was refused
C11_Witness ==
    /\ gci_arg_packed = "False"
    /\ gci_packed = "True"
    /\ gci_call = [op |-> "pack", outcome |-> "Exception"]
    /\ Len(gci_raw_bytes.blocks) > 0
    /\ Rounds(gci_raw_bytes) > 0

\* C11: for every packed argument (True, False or None) a pack() that
\* returns leaves the flag True and an unpack() that returns leaves it False,
\* a pack() while the last call was a returned pack() (an unpack() after a
\* returned unpack()) raises and leaves raw_bytes unchanged, and
\* recompute_checksums() on packed data raises and leaves raw_bytes unchanged.
C11_StrictAlternation ==
    [][/\ (gci_call'.op = "pack" /\ gci_call'.outcome = "returned")
              => gci_packed' = "True"
       /\ (gci_call'.op = "unpack" /\ gci_call'.outcome = "returned")
              => gci_packed' = "False"
       /\ (gci_call = [op |-> "pack", outcome |-> "returned"]
              /\ gci_call'.op = "pack")
              => (gci_call'.outcome = "Exception" /\ UNCHANGED gci_raw_bytes)
       /\ (gci_call = [op |-> "unpack", outcome |-> "returned"]
              /\ gci_call'.op = "unpack")
              => (gci_call'.outcome = "Exception" /\ UNCHANGED gci_raw_bytes)
       /\ (gci_call = [op |-> "pack", outcome |-> "returned"]
              /\ gci_call'.op = "recompute")
              => (gci_call'.outcome = "Exception" /\ UNCHANGED gci_raw_bytes)
      ]_<<vars, gci_vars>>

====
